---- MODULE Spec2Model ----
(***************************************************************************)
(* Model of the 5/3/1 BBB generator's Hevy sync: the program generator     *)
(* (program.Generate), the routine converter (hevy/converter.go), the REST  *)
(* client (hevy/client.go), the exercise resolver                           *)
(* (ExerciseMapper.FindTemplate) and the sync orchestrator (main.go,        *)
(* uploadToHevy).                                                           *)
(* Go's int is taken at 32 bits.                                            *)
(*                                                                         *)
(* Go strings are TLA+ strings; a Go pointer or an error is <<>> when nil   *)
(* and <<v>> otherwise; a Go map is a function with a finite domain.        *)
(* Durations are in milliseconds.                                           *)
(***************************************************************************)
EXTENDS Integers, Sequences, FiniteSets, TLC

VARIABLES
    remoteTemplates, \* the remote's exercise templates, a sequence of [ID, Title]
    remoteFolders,   \* the remote's routine folders, a sequence of [ID, Title]
    remoteRoutines,  \* the remote's routines, a sequence of [ID, Title, FolderID]
    liftOrder,       \* cfg.LiftOrder of the program being synced
    routines,        \* uploadToHevy: routines (the converted payloads)
    pc,              \* uploadToHevy: position in the function
    listPage,        \* the running list operation: page
    listAll,         \* the running list operation: what the pages before gave
    folderByName,    \* uploadToHevy: folder title -> ID
    routineByTitle,  \* uploadToHevy: routine title -> ID
    weekFolders,     \* uploadToHevy: week number -> folder ID
    week,            \* uploadToHevy: the folder loop's week
    idx,             \* uploadToHevy: the routine loop's i, plus one
    attempt,         \* uploadToHevy: the retry loop's attempt (0-based)
    err,             \* uploadToHevy: err of the last client call
    created,         \* uploadToHevy: created
    updated,         \* uploadToHevy: updated
    retErr,          \* the error uploadToHevy returned
    lastReq,         \* the last request put on the wire
    sleeps,          \* backoff sleeps taken for the routine of the last request
    reqCount,        \* requests sent for the routine of the last request
    folderReqs,      \* titles of the create-folder requests of this sync
    syncNo,          \* number of the running sync
    prev,            \* the previous sync: its program and whether it completed
    startTitles,     \* remote folder and routine titles when this sync started
    call,            \* a library function called on its own: the function and its arguments
    result           \* what that call returned

vars == <<remoteTemplates, remoteFolders, remoteRoutines, liftOrder, routines, pc,
          listPage, listAll, folderByName,
          routineByTitle, weekFolders, week, idx, attempt, err, created, updated,
          retErr, lastReq, sleeps, reqCount, folderReqs, syncNo, prev, startTitles,
          call, result>>

\* the variables of a library call made on its own
callVars == <<call, result>>

----------------------------------------------------------------------------
(* Bounds of the model *)

\* syncs run one after the other against the same remote
MaxSyncs == 2

\* the largest set count of a prescribed set given to convertSets
MaxSetCount == 3

\* the most prescribed sets of a day given to ConvertDayToRoutine
MaxDaySets == 3

\* the largest page count a remote reports to a list operation
MaxPageCount == 3

----------------------------------------------------------------------------
(* Go values *)

Nil == <<>>
Ptr(v) == <<v>>
IsNil(p) == p = <<>>
Deref(p) == p[1]

Max(S) == CHOOSE x \in S : \A y \in S : y <= x

\* strings.Contains
Contains(s, sub) ==
    \/ Len(sub) = 0
    \/ \E k \in 1..(Len(s) - Len(sub) + 1) : SubSeq(s, k, k + Len(sub) - 1) = sub

\* strings.ToLower, on ASCII
UpperLetters == "ABCDEFGHIJKLMNOPQRSTUVWXYZ"
LowerLetters == "abcdefghijklmnopqrstuvwxyz"
LowerChar(c) ==
    IF \E i \in 1..Len(UpperLetters) : SubSeq(UpperLetters, i, i) = c
    THEN LET i == CHOOSE i \in 1..Len(UpperLetters) : SubSeq(UpperLetters, i, i) = c
         IN SubSeq(LowerLetters, i, i)
    ELSE c
RECURSIVE ToLower(_)
ToLower(s) ==
    IF Len(s) = 0 THEN ""
    ELSE LowerChar(SubSeq(s, 1, 1)) \o ToLower(SubSeq(s, 2, Len(s)))

Min(S) == CHOOSE x \in S : \A y \in S : x <= y

\* strings.HasPrefix
HasPrefix(s, prefix) == Len(s) >= Len(prefix) /\ SubSeq(s, 1, Len(prefix)) = prefix

\* strings.HasSuffix, strings.TrimSuffix
HasSuffix(s, suffix) ==
    Len(s) >= Len(suffix) /\ SubSeq(s, Len(s) - Len(suffix) + 1, Len(s)) = suffix
TrimSuffix(s, suffix) ==
    IF HasSuffix(s, suffix) THEN SubSeq(s, 1, Len(s) - Len(suffix)) ELSE s

\* Go's int, as built for a target where it is 32 bits wide (on a 64-bit
\* target the same happens at the 64-bit limits)
MaxInt == 2147483647
MinInt == (-MaxInt) - 1

\* n * 2 in Go's int: the product wraps around
Twice(n) ==
    IF n > MaxInt \div 2 THEN ((n - MaxInt) + (n - MaxInt)) - 2
    ELSE IF n < -(MaxInt \div 2) - 1 THEN ((n + MaxInt) + (n + MaxInt)) + 2
    ELSE n + n

Digits == "0123456789"
IsDigit(c) == \E i \in 1..Len(Digits) : SubSeq(Digits, i, i) = c
DigitVal(c) == (CHOOSE i \in 1..Len(Digits) : SubSeq(Digits, i, i) = c) - 1

\* the largest unsigned value of int's width is 2 * MaxInt + 1: its tens and
\* its last digit
MaxUintTens == MaxInt \div 5
MaxUintUnit == (2 * (MaxInt % 5)) + 1

\* strconv.ParseUint in base 10, from the i-th character on, with the value
\* read so far held as 10 * tens + unit: a character that is no digit is a
\* syntax error; a value past the unsigned range is a range error, reported
\* where it happens
RECURSIVE ParseUint(_, _, _, _)
ParseUint(s, i, tens, unit) ==
    IF i > Len(s) THEN [tens |-> tens, unit |-> unit, err |-> ""]
    ELSE LET c == SubSeq(s, i, i)
         IN IF ~IsDigit(c) THEN [tens |-> 0, unit |-> 0, err |-> "syntax"]
            ELSE IF tens > MaxUintTens \div 10
                    \/ (tens = MaxUintTens \div 10 /\ unit > MaxUintTens % 10)
                    \/ ((10 * tens) + unit = MaxUintTens /\ DigitVal(c) > MaxUintUnit)
            THEN [tens |-> MaxUintTens, unit |-> MaxUintUnit, err |-> "range"]
            ELSE ParseUint(s, i + 1, (10 * tens) + unit, DigitVal(c))

\* strconv.Atoi with its error dropped (reps, _ := strconv.Atoi(..)): 0 for a
\* syntax error, the nearest int for a value out of range
Atoi(s) ==
    IF Len(s) = 0 THEN 0
    ELSE LET first == SubSeq(s, 1, 1)
             neg == first = "-"
             body == IF first = "-" \/ first = "+" THEN SubSeq(s, 2, Len(s)) ELSE s
             un == ParseUint(body, 1, 0, 0)
             past == un.tens > MaxInt \div 10
                     \/ (un.tens = MaxInt \div 10 /\ un.unit > MaxInt % 10)
         IN IF Len(body) = 0 \/ un.err = "syntax" THEN 0
            ELSE IF un.err = "range" \/ past THEN (IF neg THEN MinInt ELSE MaxInt)
            ELSE IF neg THEN -((10 * un.tens) + un.unit)
            ELSE (10 * un.tens) + un.unit

\* map lookup with the zero value for a missing key: m[k]
MapGet(m, k, zero) == IF k \in DOMAIN m THEN m[k] ELSE zero

\* m[k] = v
MapPut(m, k, v) == [x \in DOMAIN m \cup {k} |-> IF x = k THEN v ELSE m[x]]

EmptyMap == [x \in {} |-> 0]

Range(seq) == {seq[k] : k \in DOMAIN seq}

----------------------------------------------------------------------------
(* config, program *)

Squat == "Squat"
Bench == "Bench Press"
Deadlift == "Deadlift"
OHP == "Overhead Press"

DefaultLiftOrder == <<Squat, Bench, Deadlift, OHP>>

AllLifts == <<Squat, Bench, Deadlift, OHP>>

\* AccessoryPresets
AccessoryPresets ==
    [lift \in {Squat, Bench, Deadlift, OHP} |->
        CASE lift = Squat -> <<"Leg Curl", "Lunges", "Leg Press", "Bulgarian Split Squat">>
          [] lift = Bench ->
                <<"Dumbbell Press", "Dumbbell Row", "Dips", "Tricep Pushdown", "Cable Fly">>
          [] lift = Deadlift ->
                <<"Barbell Row", "Good Morning", "Hanging Leg Raise", "Back Extension">>
          [] lift = OHP -> <<"Lateral Raise", "Face Pull", "Rear Delt Fly", "Pull-up">>]

\* NewDefaultConfig: the default order, BBB at 50% of the same lift, nothing else
\* set. Training maxes and weights are whole pounds, percentages whole percents.
NewDefaultConfig ==
    [TrainingMaxes |-> EmptyMap,
     LiftOrder     |-> DefaultLiftOrder,
     BBBPercentage |-> 50,
     BBBPairing    |-> [lift \in Range(DefaultLiftOrder) |-> lift],
     Accessories   |-> EmptyMap]

\* RoundToNearest5(trainingMax * pct / 100) = float64(int((weight+2.5)/5) * 5),
\* on the product trainingMax * pct (the weight in hundredths of a pound);
\* int() truncates toward zero
RoundToNearest5(product) ==
    IF product + 250 >= 0 THEN ((product + 250) \div 500) * 5
    ELSE -(((-(product + 250)) \div 500) * 5)

\* WarmupScheme, WorkingSchemes, DeloadScheme
WarmupScheme == [Percentages |-> <<40, 50, 60>>, Reps |-> <<"5", "5", "3">>]
WorkingSchemes ==
    [w \in 1..3 |->
        CASE w = 1 -> [Percentages |-> <<65, 75, 85>>, Reps |-> <<"5", "5", "5+">>]
          [] w = 2 -> [Percentages |-> <<70, 80, 90>>, Reps |-> <<"3", "3", "3+">>]
          [] w = 3 -> [Percentages |-> <<75, 85, 95>>, Reps |-> <<"5", "3", "1+">>]]
DeloadScheme == [Percentages |-> <<40, 50, 60>>, Reps |-> <<"5", "5", "5">>]

\* generateMainSets
generateMainSets(lift, trainingMax, scheme) ==
    [i \in DOMAIN scheme.Percentages |->
        [Exercise   |-> lift,
         Sets       |-> 1,
         Reps       |-> scheme.Reps[i],
         Weight     |-> RoundToNearest5(trainingMax * scheme.Percentages[i]),
         Percentage |-> scheme.Percentages[i]]]

\* generateBBBSets
generateBBBSets(lift, trainingMax, percentage) ==
    <<[Exercise   |-> lift,
       Sets       |-> 5,
       Reps       |-> "10",
       Weight     |-> RoundToNearest5(trainingMax * percentage),
       Percentage |-> percentage]>>

\* the weeks of a program
NumWeeks == 4

\* Generate: the body of the loop over cfg.LiftOrder, for the week and the
\* 1-based position of the lift
GenerateDay(cfg, w, dayNum) ==
    LET mainLift == cfg.LiftOrder[dayNum]
        trainingMax == MapGet(cfg.TrainingMaxes, mainLift, 0)
        main == IF w = 4
                THEN generateMainSets(mainLift, trainingMax, DeloadScheme)
                ELSE generateMainSets(mainLift, trainingMax, WarmupScheme)
                     \o generateMainSets(mainLift, trainingMax, WorkingSchemes[w])
        bbbLift == MapGet(cfg.BBBPairing, mainLift, "")
        bbbTrainingMax == MapGet(cfg.TrainingMaxes, bbbLift, 0)
        bbb == generateBBBSets(bbbLift, bbbTrainingMax, cfg.BBBPercentage)
        accessory == MapGet(cfg.Accessories, mainLift, "")
    IN [Week     |-> w,
        DayNum   |-> dayNum,
        MainLift |-> mainLift,
        Sets     |-> main \o bbb
                     \o (IF accessory # ""
                         THEN <<[Exercise |-> accessory, Sets |-> 5, Reps |-> "10",
                                 Weight |-> 0, Percentage |-> 0]>>
                         ELSE <<>>)]

\* Generate: for week := 1; week <= 4, for each lift of cfg.LiftOrder, one day
Generate(cfg) ==
    [k \in 1..(NumWeeks * Len(cfg.LiftOrder)) |->
        GenerateDay(cfg, ((k - 1) \div Len(cfg.LiftOrder)) + 1,
                    ((k - 1) % Len(cfg.LiftOrder)) + 1)]

\* ConvertDayToRoutine: the title
RoutineTitle(day) ==
    "531 BBB W" \o ToString(day.Week) \o "D" \o ToString(day.DayNum) \o " - " \o day.MainLift

----------------------------------------------------------------------------
(* The remote service and the wire *)

baseURL == "https://api.hevyapp.com/v1"

\* what the network and the service can answer to one request:
\*   transport: the connection failed with this cause, no response
\*   api:       a non-2xx response with this status and body
\*   ok:        the service did what was asked and answered with this status;
\*              decodable says whether the body is the JSON echo of the resource
TransportCauses == {"EOF"}
ErrorReplies == {[status |-> 429, raw |-> "Too Many Requests"],
                 [status |-> 500, raw |-> "Internal Server Error"],
                 [status |-> 503, raw |-> "rate limit exceeded"]}
Outcomes(okStatuses) ==
    [kind : {"transport"}, cause : TransportCauses]
    \cup {[kind |-> "api", status |-> e.status, raw |-> e.raw] : e \in ErrorReplies}
    \cup [kind : {"ok"}, status : okStatuses, decodable : BOOLEAN]

\* the HTTP response the client reads for an outcome; echo is the resource the
\* service stored
Response(o, echo) ==
    IF o.kind = "transport"
    THEN [transport |-> Ptr(o.cause), status |-> 0, raw |-> "", decoded |-> Nil]
    ELSE IF o.kind = "api"
    THEN [transport |-> Nil, status |-> o.status, raw |-> o.raw, decoded |-> Nil]
    ELSE [transport |-> Nil, status |-> o.status, raw |-> "",
          decoded |-> IF o.decodable THEN Ptr(echo) ELSE Nil]

\* the service acted on the request
Applied(o) == o.kind = "ok"

\* identifiers the service gives to what it stores
NewRoutineID(rs) == "r" \o ToString(428 + Len(rs))
NewFolderID(fs) == 101 + Len(fs)

\* GET of a page of a list: the page's items and the number of pages
PageCount(items, pageSize) == (Len(items) + pageSize - 1) \div pageSize
RemotePage(items, page, pageSize) ==
    [page_count |-> PageCount(items, pageSize),
     items |-> SubSeq(items, ((page - 1) * pageSize) + 1,
                      Min({page * pageSize, Len(items)}))]

\* POST /routines, PUT /routines/{id}, POST /routine_folders on the service
RemoteCreateRoutine(rs, title, folder) ==
    Append(rs, [ID |-> NewRoutineID(rs), Title |-> title, FolderID |-> folder])
RemoteUpdateRoutine(rs, id, title) ==
    [k \in DOMAIN rs |-> IF rs[k].ID = id THEN [rs[k] EXCEPT !.Title = title] ELSE rs[k]]
RemoteCreateFolder(fs, title) ==
    Append(fs, [ID |-> NewFolderID(fs), Title |-> title])

----------------------------------------------------------------------------
(* hevy.Client *)

StatusOK == 200
StatusCreated == 201

NoErr == Nil
Result(v, e) == [val |-> v, err |-> e]

\* the error of http.Client.Do: url.Error, "Op \"URL\": cause"
DoError(op, url, cause) == op \o " \"" \o url \o "\": " \o cause

\* fmt.Errorf("API error (status %d): %s", resp.StatusCode, string(body))
APIError(resp) == "API error (status " \o ToString(resp.status) \o "): " \o resp.raw

RoutinesURL == baseURL \o "/routines"
RoutineURL(routineID) == baseURL \o "/routines/" \o routineID
FoldersURL == baseURL \o "/routine_folders"

\* the body json.Marshal writes: folder_id is omitted when FolderID is nil
CreateRoutineWire(routine) ==
    [method |-> "POST", url |-> RoutinesURL, title |-> routine.Title,
     folder |-> routine.FolderID]
UpdateRoutineWire(routineID, routine) ==
    [method |-> "PUT", url |-> RoutineURL(routineID), title |-> routine.Title,
     folder |-> routine.FolderID]
CreateFolderWire(title) ==
    [method |-> "POST", url |-> FoldersURL, title |-> title, folder |-> Nil]

\* a CreateRoutine that reports the decode failure, as CreateFolder does
CreateRoutineStrictDecode(routine, resp) ==
    IF ~IsNil(resp.transport)
    THEN Result(Nil, Ptr("failed to create routine: "
                         \o DoError("Post", RoutinesURL, Deref(resp.transport))))
    ELSE IF resp.status # StatusCreated /\ resp.status # StatusOK
    THEN Result(Nil, Ptr(APIError(resp)))
    ELSE IF IsNil(resp.decoded)
    THEN Result(Nil, Ptr("failed to decode response: invalid JSON"))
    ELSE Result(Ptr([ID |-> Deref(resp.decoded).ID, Title |-> Deref(resp.decoded).Title]),
                NoErr)

\* Client.CreateRoutine, given the response to its request
CreateRoutine(routine, resp) ==
    IF ~IsNil(resp.transport)
    THEN Result(Nil, Ptr("failed to create routine: "
                         \o DoError("Post", RoutinesURL, Deref(resp.transport))))
    ELSE IF resp.status # StatusCreated /\ resp.status # StatusOK
    THEN Result(Nil, Ptr(APIError(resp)))
    ELSE IF IsNil(resp.decoded)
    THEN Result(Ptr([ID |-> "", Title |-> routine.Title]), NoErr)
    ELSE Result(Ptr([ID |-> Deref(resp.decoded).ID, Title |-> Deref(resp.decoded).Title]),
                NoErr)

\* Client.CreateFolder, given the response to its request
CreateFolder(title, resp) ==
    IF ~IsNil(resp.transport)
    THEN Result(Nil, Ptr("failed to create folder: "
                         \o DoError("Post", FoldersURL, Deref(resp.transport))))
    ELSE IF resp.status # StatusCreated /\ resp.status # StatusOK
    THEN Result(Nil, Ptr(APIError(resp)))
    ELSE IF IsNil(resp.decoded)
    THEN Result(Nil, Ptr("failed to decode folder response: invalid JSON"))
    ELSE Result(Ptr([ID |-> Deref(resp.decoded).ID, Title |-> Deref(resp.decoded).Title]),
                NoErr)

\* Client.UpdateRoutine, given the response to its request
UpdateRoutine(routineID, routine, resp) ==
    IF ~IsNil(resp.transport)
    THEN Result(Nil, Ptr("failed to update routine: "
                         \o DoError("Put", RoutineURL(routineID), Deref(resp.transport))))
    ELSE IF resp.status # StatusOK
    THEN Result(Nil, Ptr(APIError(resp)))
    ELSE IF IsNil(resp.decoded)
    THEN Result(Ptr([ID |-> "", Title |-> routine.Title]), NoErr)
    ELSE Result(Ptr([ID |-> Deref(resp.decoded).ID, Title |-> Deref(resp.decoded).Title]),
                NoErr)

\* the page sizes the list requests ask for
TemplatesPageSize == 100
FoldersPageSize == 10
RoutinesPageSize == 10

\* fmt.Sprintf("%s/exercise_templates?page=%d&pageSize=100", baseURL, page), and
\* the same for folders and routines
PageURL(path, page, pageSize) ==
    baseURL \o path \o "?page=" \o ToString(page) \o "&pageSize=" \o ToString(pageSize)
TemplatesPageURL(page) == PageURL("/exercise_templates", page, TemplatesPageSize)
FoldersPageURL(page) == PageURL("/routine_folders", page, FoldersPageSize)
RoutinesPageURL(page) == PageURL("/routines", page, RoutinesPageSize)

\* a list loop that goes on while the page is not past the page count
MorePagesUpTo(page, pageCount) == ~(page > pageCount)

\* a list loop that stops after the first page
MorePagesNever(page, pageCount) == FALSE

\* the list loop goes on: not (page >= result.PageCount)
MorePages(page, pageCount) == ~(page >= pageCount)

\* a list loop that returns what it gathered when a page fails
ListFailureKeepsPages(all, e) == [val |-> all, err |-> e, more |-> FALSE]

\* a list operation returns nil and the error when a page fails
ListFailure(all, e) == [val |-> <<>>, err |-> e, more |-> FALSE]

\* one turn of the loop of GetExerciseTemplates, GetFolders and GetRoutines: the
\* request for the page was answered by resp, all is what the pages before
\* gave; more says the loop goes on with page + 1, and val then holds what
\* is gathered so far
GetList(what, url, page, all, resp) ==
    IF ~IsNil(resp.transport)
    THEN ListFailure(all, Ptr("failed to fetch " \o what \o ": "
                              \o DoError("Get", url, Deref(resp.transport))))
    ELSE IF resp.status # StatusOK
    THEN ListFailure(all, Ptr(APIError(resp)))
    ELSE IF IsNil(resp.decoded)
    THEN ListFailure(all, Ptr("failed to decode response: invalid JSON"))
    ELSE [val  |-> all \o Deref(resp.decoded).items,
          err  |-> NoErr,
          more |-> MorePages(page, Deref(resp.decoded).page_count)]
GetExerciseTemplates(page, all, resp) ==
    GetList("exercise templates", TemplatesPageURL(page), page, all, resp)
GetFolders(page, all, resp) ==
    GetList("folders", FoldersPageURL(page), page, all, resp)
GetRoutines(page, all, resp) ==
    GetList("routines", RoutinesPageURL(page), page, all, resp)

----------------------------------------------------------------------------
(* hevy.ExerciseMapper *)

\* exerciseAliases
exerciseAliases ==
    [name \in {"squat", "bench press", "deadlift", "overhead press", "barbell row",
               "dumbbell press", "dumbbell row", "leg curl", "leg press",
               "tricep pushdown", "cable fly", "good morning", "hanging leg raise",
               "back extension", "lateral raise", "face pull", "rear delt fly",
               "pull-up", "dips", "lunges", "bulgarian split squat"} |->
        CASE name = "squat" -> <<"barbell squat", "squat (barbell)">>
          [] name = "bench press" -> <<"barbell bench press", "bench press (barbell)">>
          [] name = "deadlift" -> <<"barbell deadlift", "deadlift (barbell)">>
          [] name = "overhead press" ->
                <<"overhead press (barbell)", "barbell overhead press",
                  "shoulder press (barbell)">>
          [] name = "barbell row" ->
                <<"bent over row (barbell)", "barbell bent over row", "bent over row">>
          [] name = "dumbbell press" ->
                <<"dumbbell bench press", "bench press (dumbbell)", "dumbbell chest press">>
          [] name = "dumbbell row" ->
                <<"dumbbell row", "bent over row (dumbbell)", "one arm dumbbell row">>
          [] name = "leg curl" -> <<"lying leg curl", "leg curl (machine)", "seated leg curl">>
          [] name = "leg press" -> <<"leg press (machine)", "leg press">>
          [] name = "tricep pushdown" ->
                <<"tricep pushdown", "triceps pushdown", "cable pushdown">>
          [] name = "cable fly" -> <<"cable fly", "cable chest fly", "cable crossover">>
          [] name = "good morning" -> <<"good morning", "good morning (barbell)">>
          [] name = "hanging leg raise" -> <<"hanging leg raise", "hanging knee raise">>
          [] name = "back extension" ->
                <<"back extension", "hyperextension", "back extension (machine)">>
          [] name = "lateral raise" ->
                <<"lateral raise (dumbbell)", "dumbbell lateral raise", "lateral raise">>
          [] name = "face pull" -> <<"face pull", "face pull (cable)">>
          [] name = "rear delt fly" ->
                <<"reverse fly (dumbbell)", "rear delt fly", "reverse fly">>
          [] name = "pull-up" -> <<"pull up", "pull-up", "pullup">>
          [] name = "dips" -> <<"dip", "tricep dip", "chest dip">>
          [] name = "lunges" -> <<"lunge (dumbbell)", "walking lunge", "lunge (barbell)">>
          [] name = "bulgarian split squat" -> <<"bulgarian split squat", "split squat">>]

\* NewExerciseMapper: m.templates[strings.ToLower(t.Title)] = t, in list order
NewExerciseMapper(templates) ==
    [t \in {ToLower(templates[k].Title) : k \in DOMAIN templates} |->
        templates[Max({k \in DOMAIN templates : ToLower(templates[k].Title) = t})]]

\* an alias loop that keeps the last alias found
LastAlias(m, aliases) ==
    LET present == {k \in DOMAIN aliases : aliases[k] \in DOMAIN m}
    IN IF present = {} THEN Nil ELSE Ptr(m[aliases[Max(present)]])

\* for _, alias := range aliases { if t, ok := m.templates[alias]; ok { return } }
FirstAlias(m, aliases) ==
    LET present == {k \in DOMAIN aliases : aliases[k] \in DOMAIN m}
    IN IF present = {} THEN Nil ELSE Ptr(m[aliases[Min(present)]])

\* the partial match: the map is ranged over in no fixed order, so any title
\* that matches may be the one returned
PartialMatches(m, lower) ==
    {title \in DOMAIN m : Contains(title, lower) \/ Contains(lower, title)}

\* ExerciseMapper.FindTemplate: the results the call may return
FindTemplate(m, name) ==
    LET lower == ToLower(name)
        byAlias == FirstAlias(m, MapGet(exerciseAliases, lower, <<>>))
    IN IF lower \in DOMAIN m
       THEN {Result(Ptr(m[lower]), NoErr)}
       ELSE IF ~IsNil(byAlias)
       THEN {Result(byAlias, NoErr)}
       ELSE IF PartialMatches(m, lower) # {}
       THEN {Result(Ptr(m[title]), NoErr) : title \in PartialMatches(m, lower)}
       ELSE {Result(Nil, Ptr("no template found for exercise: " \o name))}

----------------------------------------------------------------------------
(* hevy/converter.go *)

SetTypeWarmup == "warmup"
SetTypeNormal == "normal"

\* LbsToKg: lbs * 0.453592, in millionths of a kilogram
LbsToKg(lbs) == lbs * 453592

\* a set type that takes every percentage up to 60 for a warmup
SetTypeUpTo60(percentage) ==
    IF percentage <= 60 THEN SetTypeWarmup ELSE SetTypeNormal

\* convertSets: setType
SetTypeOf(percentage) ==
    IF percentage > 0 /\ percentage <= 60 THEN SetTypeWarmup ELSE SetTypeNormal

\* convertSets: endReps := reps * 2; if endReps < 10 { endReps = 10 }
EndReps(reps) == IF Twice(reps) < 10 THEN 10 ELSE Twice(reps)

\* convertSets: the RoutineSet built in each turn of the loop
RoutineSet(set) ==
    LET isAMRAP == HasSuffix(set.Reps, "+")
        repsStr == TrimSuffix(set.Reps, "+")
        reps == Atoi(repsStr)
    IN [Type     |-> SetTypeOf(set.Percentage),
        WeightKg |-> IF set.Weight > 0 THEN Ptr(LbsToKg(set.Weight)) ELSE Nil,
        Reps     |-> IF reps > 0 /\ ~isAMRAP THEN Ptr(reps) ELSE Nil,
        RepRange |-> IF reps > 0 /\ isAMRAP
                     THEN Ptr([Start |-> Ptr(reps), End |-> Ptr(EndReps(reps))])
                     ELSE Nil]

\* convertSets: for i := 0; i < set.Sets; i++ { sets = append(sets, routineSet) }
convertSets(set) == [i \in 1..set.Sets |-> RoutineSet(set)]

\* the process stopped on a run-time panic
Panic(msg) == [panic |-> msg]
Panicked(r) == "panic" \in DOMAIN r

\* exercises = append(exercises, *currentRoutineExercise), if there is one
CloseExercise(exercises, current) ==
    IF IsNil(current) THEN exercises ELSE Append(exercises, Deref(current))

\* a conversion that returns the blocks it has closed along with the error
TemplateNotFoundKeepsBlocks(day, exercises, name, e) ==
    Result(Ptr([Title |-> RoutineTitle(day), FolderID |-> Nil, Exercises |-> exercises]),
           Ptr("failed to find template for " \o name \o ": " \o Deref(e)))

\* return nil, fmt.Errorf("failed to find template for %s: %w", set.Exercise, err)
TemplateNotFound(day, exercises, name, e) ==
    Result(Nil, Ptr("failed to find template for " \o name \o ": " \o Deref(e)))

\* ConvertDayToRoutine: the loop over day.Sets from the i-th set on; the results
\* the call may return (FindTemplate may return any of several templates)
RECURSIVE ConvertSetsFrom(_, _, _, _, _, _)
ConvertSetsFrom(day, m, i, exercises, currentExercise, currentRoutineExercise) ==
    IF i > Len(day.Sets)
    THEN {Result(Ptr([Title     |-> RoutineTitle(day),
                      FolderID  |-> Nil,
                      Exercises |-> CloseExercise(exercises, currentRoutineExercise)]),
                 NoErr)}
    ELSE LET set == day.Sets[i]
         IN IF set.Exercise # currentExercise
            THEN UNION {IF ~IsNil(t.err)
                        THEN {TemplateNotFound(day, exercises, set.Exercise, t.err)}
                        ELSE ConvertSetsFrom(day, m, i + 1,
                                 CloseExercise(exercises, currentRoutineExercise),
                                 set.Exercise,
                                 Ptr([ExerciseTemplateID |-> Deref(t.val).ID,
                                      Sets |-> convertSets(set)]))
                        : t \in FindTemplate(m, set.Exercise)}
            ELSE IF IsNil(currentRoutineExercise)
            THEN {Panic("invalid memory address or nil pointer dereference")}
            ELSE ConvertSetsFrom(day, m, i + 1, exercises, currentExercise,
                     Ptr([Deref(currentRoutineExercise) EXCEPT
                             !.Sets = @ \o convertSets(set)]))

\* ConvertDayToRoutine
ConvertDayToRoutine(day, m) == ConvertSetsFrom(day, m, 1, <<>>, "", Nil)

\* ConvertProgramToRoutines: the loop over prog.Days from the k-th day on
RECURSIVE ConvertDaysFrom(_, _, _, _)
ConvertDaysFrom(prog, m, k, converted) ==
    IF k > Len(prog) THEN {Result(converted, NoErr)}
    ELSE UNION {IF Panicked(r) THEN {r}
                ELSE IF ~IsNil(r.err) THEN {Result(<<>>, r.err)}
                ELSE ConvertDaysFrom(prog, m, k + 1, Append(converted, Deref(r.val)))
                : r \in ConvertDayToRoutine(prog[k], m)}

\* ConvertProgramToRoutines: a nil list is the empty sequence
ConvertProgramToRoutines(prog, m) == ConvertDaysFrom(prog, m, 1, <<>>)

----------------------------------------------------------------------------
(* main.go: uploadToHevy *)

\* a retry loop that runs once more
MaxAttemptsOneMore == 5 + 1

\* the retry loop's attempts per routine
MaxAttempts == 5
\* the backoff's base, in seconds
BackoffBase == 10
\* time.Second, in milliseconds
Second == 1000
\* routines per week, by position
RoutinesPerWeek == 4

\* fmt.Sprintf("531 BBB Week %d", week)
FolderName(w) == "531 BBB Week " \o ToString(w)

\* folderByName: for _, f := range existingFolders { folderByName[f.Title] = f.ID }
BuildFolderByName(folders) ==
    [t \in {folders[k].Title : k \in DOMAIN folders} |->
        folders[Max({k \in DOMAIN folders : folders[k].Title = t})].ID]

\* a routine map keyed by ID instead of title
BuildRoutineByID(rs) == [t \in {rs[k].ID : k \in DOMAIN rs} |-> t]

\* routineByTitle: for _, r := range existingRoutines { routineByTitle[r.Title] = r.ID }
BuildRoutineByTitle(rs) ==
    [t \in {rs[k].Title : k \in DOMAIN rs} |->
        rs[Max({k \in DOMAIN rs : rs[k].Title = t})].ID]

\* isRateLimitError
isRateLimitError(e) ==
    IF IsNil(e) THEN FALSE
    ELSE Contains(Deref(e), "429") \/ Contains(Deref(e), "rate limit")

\* a backoff whose exponent counts from the previous attempt
BackoffDelayOffByOne(a) == BackoffBase * (2 ^ (a - 1)) * Second

\* delay := time.Duration(10*(1<<attempt)) * time.Second
BackoffDelay(a) == BackoffBase * (2 ^ a) * Second

\* the sleep at the top of the retry loop: none before the first attempt
SleepBefore(a, taken) == IF a > 0 THEN Append(taken, BackoffDelay(a)) ELSE <<>>

\* week := (i / 4) + 1, for the 0-based index i
WeekOf(i) == (i \div RoutinesPerWeek) + 1

\* routine.FolderID = &folderID, with folderID := weekFolders[week]
WithFolder(routine, wf, i) ==
    [routine EXCEPT !.FolderID = Ptr(MapGet(wf, WeekOf(i), 0))]

\* an update that sends the routine as it is
UpdatePayloadKeepsFolder(routine) == routine

\* updateRoutine := routine; updateRoutine.FolderID = nil
UpdatePayload(routine) == [routine EXCEPT !.FolderID = Nil]

\* a folder lookup that ignores case
FolderExistsAnyCase(byName, name) ==
    \E t \in DOMAIN byName : ToLower(t) = ToLower(name)

\* folderID, exists := folderByName[folderName]
FolderExists(byName, name) == name \in DOMAIN byName

\* a lookup that never finds the title
ExistsNever(byTitle, title) == FALSE

\* existingID, exists := routineByTitle[routine.Title]
Exists(byTitle, title) == title \in DOMAIN byTitle

\* a retry loop that retries any error
RetryAnyError(e, a) == ~IsNil(e) /\ a + 1 < MaxAttempts

\* the retry loop goes on: not (err == nil || !isRateLimitError(err)), and
\* attempts are left
RetryAgain(e, a) == ~(IsNil(e) \/ ~isRateLimitError(e)) /\ a + 1 < MaxAttempts

\* fmt.Errorf("failed to sync routine %s: %w", routine.Title, err)
SyncError(title, e) == Ptr("failed to sync routine " \o title \o ": " \o Deref(e))

\* no library call is made on its own during a sync
NoCall == [fn |-> ""]
NoResult == <<>>

NoReq == [method |-> "", url |-> "", title |-> "", folder |-> Nil]

TitlesOf(seq) == [k \in DOMAIN seq |-> seq[k].Title]

\* a routine loop that stops one routine early
AfterRoutineStopsEarly(next, rs) == IF next >= Len(rs) THEN "done" ELSE "routines"

\* the position after the folder loop and after each synced routine
AfterRoutine(next, rs) == IF next > Len(rs) THEN "done" ELSE "routines"

\* a GET of a page of a list on the wire
ListWire(url) == [NoReq EXCEPT !.method = "GET", !.url = url]

\* the config the program is generated from: training maxes for all lifts, the
\* lifts in the given order, each lift's BBB sets with the same lift and its
\* first preset accessory
TrainingMaxes ==
    [lift \in Range(AllLifts) |->
        CASE lift = Squat -> 300 [] lift = Bench -> 225
          [] lift = Deadlift -> 365 [] lift = OHP -> 135]
ConfigOf(order) ==
    [NewDefaultConfig EXCEPT
        !.TrainingMaxes = TrainingMaxes,
        !.LiftOrder = order,
        !.BBBPairing = [lift \in Range(order) |-> lift],
        !.Accessories = [lift \in Range(order) |-> AccessoryPresets[lift][1]]]

\* templates, err := client.GetExerciseTemplates(): one turn of its loop; after
\* the last page, hevy.NewExerciseMapper and hevy.ConvertProgramToRoutines
FetchTemplates(o) ==
    /\ pc = "get_templates"
    /\ LET res == GetExerciseTemplates(listPage, listAll,
                      Response(o, RemotePage(remoteTemplates, listPage, TemplatesPageSize)))
       IN /\ lastReq' = ListWire(TemplatesPageURL(listPage))
          /\ IF ~IsNil(res.err)
             THEN /\ pc' = "failed"
                  /\ err' = res.err
                  /\ retErr' = Ptr("failed to fetch exercise templates: " \o Deref(res.err))
                  /\ UNCHANGED <<listPage, listAll, routines>>
             ELSE IF res.more
             THEN /\ listPage' = listPage + 1
                  /\ listAll' = res.val
                  /\ err' = res.err
                  /\ UNCHANGED <<pc, retErr, routines>>
             ELSE \E conv \in ConvertProgramToRoutines(Generate(ConfigOf(liftOrder)),
                                                       NewExerciseMapper(res.val)) :
                     /\ listPage' = 1
                     /\ listAll' = <<>>
                     /\ IF Panicked(conv)
                        THEN /\ pc' = "crashed"
                             /\ UNCHANGED <<err, retErr, routines>>
                        ELSE IF ~IsNil(conv.err)
                        THEN /\ pc' = "failed"
                             /\ err' = conv.err
                             /\ retErr' = Ptr("failed to convert program: "
                                              \o Deref(conv.err))
                             /\ routines' = conv.val
                        ELSE /\ pc' = "get_folders"
                             /\ err' = conv.err
                             /\ retErr' = retErr
                             /\ routines' = conv.val
    /\ UNCHANGED <<remoteTemplates, remoteFolders, remoteRoutines, liftOrder,
                   folderByName, routineByTitle, weekFolders, week, idx, attempt,
                   created, updated, sleeps, reqCount, folderReqs, syncNo, prev,
                   startTitles, callVars>>

\* existingFolders, err := client.GetFolders(): one turn of its loop
FetchFolders(o) ==
    /\ pc = "get_folders"
    /\ LET res == GetFolders(listPage, listAll,
                      Response(o, RemotePage(remoteFolders, listPage, FoldersPageSize)))
       IN /\ lastReq' = ListWire(FoldersPageURL(listPage))
          /\ err' = res.err
          /\ IF ~IsNil(res.err)
             THEN /\ pc' = "failed"
                  /\ retErr' = Ptr("failed to fetch folders: " \o Deref(res.err))
                  /\ UNCHANGED <<listPage, listAll, folderByName>>
             ELSE IF res.more
             THEN /\ listPage' = listPage + 1
                  /\ listAll' = res.val
                  /\ UNCHANGED <<pc, retErr, folderByName>>
             ELSE /\ listPage' = 1
                  /\ listAll' = <<>>
                  /\ folderByName' = BuildFolderByName(res.val)
                  /\ pc' = "get_routines"
                  /\ retErr' = retErr
    /\ UNCHANGED <<remoteTemplates, remoteFolders, remoteRoutines, liftOrder, routines,
                   routineByTitle, weekFolders, week, idx, attempt, created, updated,
                   sleeps, reqCount, folderReqs, syncNo, prev, startTitles, callVars>>

\* existingRoutines, err := client.GetRoutines(): one turn of its loop; after
\* the last page, the lookup maps
FetchRoutines(o) ==
    /\ pc = "get_routines"
    /\ LET res == GetRoutines(listPage, listAll,
                      Response(o, RemotePage(remoteRoutines, listPage, RoutinesPageSize)))
       IN /\ lastReq' = ListWire(RoutinesPageURL(listPage))
          /\ err' = res.err
          /\ IF ~IsNil(res.err)
             THEN /\ pc' = "failed"
                  /\ retErr' = Ptr("failed to fetch routines: " \o Deref(res.err))
                  /\ UNCHANGED <<listPage, listAll, routineByTitle>>
             ELSE IF res.more
             THEN /\ listPage' = listPage + 1
                  /\ listAll' = res.val
                  /\ UNCHANGED <<pc, retErr, routineByTitle>>
             ELSE /\ listPage' = 1
                  /\ listAll' = <<>>
                  /\ routineByTitle' = BuildRoutineByTitle(res.val)
                  /\ pc' = "folders"
                  /\ retErr' = retErr
    /\ UNCHANGED <<remoteTemplates, remoteFolders, remoteRoutines, liftOrder, routines,
                   folderByName, weekFolders, week, idx, attempt, created, updated,
                   sleeps, reqCount, folderReqs, syncNo, prev, startTitles, callVars>>

\* the folder loop, week <= 4: the folder exists
ReuseFolder ==
    /\ pc = "folders"
    /\ FolderExists(folderByName, FolderName(week))
    /\ weekFolders' = MapPut(weekFolders, week, MapGet(folderByName, FolderName(week), 0))
    /\ week' = week + 1
    /\ pc' = IF week' > NumWeeks THEN AfterRoutine(1, routines) ELSE "folders"
    /\ UNCHANGED <<remoteFolders, remoteRoutines, liftOrder, routines, folderByName,
                   routineByTitle, idx, attempt, err, created, updated, retErr,
                   lastReq, sleeps, reqCount, folderReqs, syncNo, prev, startTitles,
                   remoteTemplates, listPage, listAll,
                   callVars>>

\* the folder loop, week <= 4: the folder does not exist, client.CreateFolder
CreateWeekFolder(o) ==
    /\ pc = "folders"
    /\ ~FolderExists(folderByName, FolderName(week))
    /\ LET folderName == FolderName(week)
           echo == [ID |-> NewFolderID(remoteFolders), Title |-> folderName]
           res == CreateFolder(folderName, Response(o, echo))
       IN /\ lastReq' = CreateFolderWire(folderName)
          /\ folderReqs' = Append(folderReqs, folderName)
          /\ remoteFolders' = IF Applied(o)
                              THEN RemoteCreateFolder(remoteFolders, folderName)
                              ELSE remoteFolders
          /\ err' = res.err
          /\ IF IsNil(res.err)
             THEN /\ weekFolders' = MapPut(weekFolders, week, Deref(res.val).ID)
                  /\ week' = week + 1
                  /\ pc' = IF week' > NumWeeks THEN AfterRoutine(1, routines) ELSE "folders"
                  /\ retErr' = retErr
             ELSE /\ weekFolders' = weekFolders
                  /\ week' = week
                  /\ pc' = "failed"
                  /\ retErr' = Ptr("failed to create folder " \o folderName \o ": "
                                   \o Deref(res.err))
    /\ UNCHANGED <<remoteRoutines, liftOrder, routines, folderByName, routineByTitle,
                   idx, attempt, created, updated, sleeps, reqCount, syncNo, prev,
                   startTitles, remoteTemplates, listPage, listAll, callVars>>

\* one turn of the retry loop for routines[i], and what follows the loop when
\* it ends
SyncRoutine(o) ==
    /\ pc = "routines"
    /\ LET routine == WithFolder(routines[idx], weekFolders, idx - 1)
           exists == Exists(routineByTitle, routine.Title)
           existingID == MapGet(routineByTitle, routine.Title, "")
           req == IF exists
                  THEN UpdateRoutineWire(existingID, UpdatePayload(routine))
                  ELSE CreateRoutineWire(routine)
           echo == [ID |-> IF exists THEN existingID ELSE NewRoutineID(remoteRoutines),
                    Title |-> routine.Title]
           res == IF exists
                  THEN UpdateRoutine(existingID, UpdatePayload(routine), Response(o, echo))
                  ELSE CreateRoutine(routine, Response(o, echo))
           isUpdate == exists
       IN /\ o \in Outcomes(IF exists THEN {StatusOK} ELSE {StatusOK, StatusCreated})
          /\ sleeps' = SleepBefore(attempt, sleeps)
          /\ reqCount' = IF attempt > 0 THEN reqCount + 1 ELSE 1
          /\ lastReq' = req
          /\ remoteRoutines' =
                IF ~Applied(o) THEN remoteRoutines
                ELSE IF exists
                THEN RemoteUpdateRoutine(remoteRoutines, existingID, req.title)
                ELSE RemoteCreateRoutine(remoteRoutines, req.title, req.folder)
          /\ err' = res.err
          /\ IF RetryAgain(res.err, attempt)
             THEN /\ attempt' = attempt + 1
                  /\ UNCHANGED <<pc, idx, created, updated, retErr>>
             ELSE IF ~IsNil(res.err)
             THEN /\ pc' = "failed"
                  /\ retErr' = SyncError(routine.Title, res.err)
                  /\ UNCHANGED <<idx, attempt, created, updated>>
             ELSE /\ updated' = IF isUpdate THEN updated + 1 ELSE updated
                  /\ created' = IF isUpdate THEN created ELSE created + 1
                  /\ idx' = idx + 1
                  /\ attempt' = 0
                  /\ pc' = AfterRoutine(idx + 1, routines)
                  /\ retErr' = retErr
    /\ UNCHANGED <<remoteFolders, liftOrder, routines, folderByName, routineByTitle,
                   weekFolders, week, folderReqs, syncNo, prev, startTitles,
                   remoteTemplates, listPage, listAll, callVars>>

----------------------------------------------------------------------------
(* Runs *)

\* the lift orders of the programs synced: those GatherConfig can give
LiftOrders == {DefaultLiftOrder, <<Bench, Squat, Deadlift, OHP>>}

\* lift orders of a config read from the memory file, which Load takes as it is
LoadedLiftOrders == {<<Squat, Bench, Deadlift>>, <<Squat, Bench, Deadlift, OHP, Squat>>}

\* the exercise templates the remote holds: all the program needs, or all but
\* the one for the squat day's accessory
AllTemplates ==
    <<[ID |-> "T1", Title |-> "Squat (Barbell)"],
      [ID |-> "T2", Title |-> "Bench Press (Barbell)"],
      [ID |-> "T3", Title |-> "Deadlift (Barbell)"],
      [ID |-> "T4", Title |-> "Overhead Press (Barbell)"],
      [ID |-> "T5", Title |-> "Bench Press (Dumbbell)"],
      [ID |-> "T6", Title |-> "Bent Over Row (Barbell)"],
      [ID |-> "T7", Title |-> "Lateral Raise (Dumbbell)"],
      [ID |-> "T8", Title |-> "Lying Leg Curl"]>>
InitTemplates == {AllTemplates, SubSeq(AllTemplates, 1, Len(AllTemplates) - 1)}

\* the titles Generate and ConvertDayToRoutine give the default program
DefaultTitles == [k \in 1..16 |-> RoutineTitle(Generate(ConfigOf(DefaultLiftOrder))[k])]

\* what the remote holds before the first sync: folder titles and routine titles
\* (the longest of each fills more than one page of its list)
InitFolderTitles ==
    {<<>>,
     <<FolderName(1), FolderName(2), FolderName(3), FolderName(4)>>,
     <<FolderName(3), FolderName(1)>>,
     <<"531 bbb week 1", FolderName(2), "Legs", FolderName(2)>>,
     <<"Legs", "Push", "Pull", "Arms", "Core", "Cardio", "Rehab", "Travel", "Old",
       FolderName(1), FolderName(2)>>}
InitRoutineTitles ==
    {<<>>,
     SubSeq(DefaultTitles, 1, 4),
     DefaultTitles,
     <<"531 BBB W2D3 - Deadlift", "Push Day">>}

\* main has generated the program from a config with one of the lift orders
\* and enters uploadToHevy
Start(orders) ==
    /\ remoteTemplates \in InitTemplates
    /\ \E ft \in InitFolderTitles :
          remoteFolders = [k \in DOMAIN ft |-> [ID |-> 100 + k, Title |-> ft[k]]]
    /\ \E rt \in InitRoutineTitles :
          remoteRoutines = [k \in DOMAIN rt |->
                               [ID |-> "r" \o ToString(427 + k), Title |-> rt[k],
                                FolderID |-> Nil]]
    /\ liftOrder \in orders
    /\ routines = <<>>
    /\ pc = "get_templates"
    /\ listPage = 1
    /\ listAll = <<>>
    /\ folderByName = EmptyMap
    /\ routineByTitle = EmptyMap
    /\ weekFolders = EmptyMap
    /\ week = 1
    /\ idx = 1
    /\ attempt = 0
    /\ err = NoErr
    /\ created = 0
    /\ updated = 0
    /\ retErr = NoErr
    /\ lastReq = NoReq
    /\ sleeps = <<>>
    /\ reqCount = 0
    /\ folderReqs = <<>>
    /\ syncNo = 1
    /\ prev = [order |-> <<>>, ok |-> FALSE]
    /\ startTitles = [folders |-> TitlesOf(remoteFolders),
                      routines |-> TitlesOf(remoteRoutines)]
    /\ call = NoCall
    /\ result = NoResult

Init == Start(LiftOrders)

\* the program is run again and syncs the program generated from order
Rerun(order) ==
    /\ syncNo < MaxSyncs
    /\ syncNo' = syncNo + 1
    /\ prev' = [order |-> liftOrder, ok |-> pc = "done"]
    /\ liftOrder' = order
    /\ routines' = <<>>
    /\ pc' = "get_templates"
    /\ listPage' = 1
    /\ listAll' = <<>>
    /\ folderByName' = EmptyMap
    /\ routineByTitle' = EmptyMap
    /\ weekFolders' = EmptyMap
    /\ week' = 1
    /\ idx' = 1
    /\ attempt' = 0
    /\ err' = NoErr
    /\ created' = 0
    /\ updated' = 0
    /\ retErr' = NoErr
    /\ lastReq' = NoReq
    /\ sleeps' = <<>>
    /\ reqCount' = 0
    /\ folderReqs' = <<>>
    /\ startTitles' = [folders |-> TitlesOf(remoteFolders),
                       routines |-> TitlesOf(remoteRoutines)]
    /\ UNCHANGED <<remoteTemplates, remoteFolders, remoteRoutines, callVars>>

\* a second run after a sync that completed
RerunAfterSuccess ==
    /\ pc = "done"
    /\ \E order \in LiftOrders : Rerun(order)

ListOutcomes == Outcomes({StatusOK})
FolderOutcomes == Outcomes({StatusOK, StatusCreated})
RoutineOutcomes == Outcomes({StatusOK, StatusCreated})

Next ==
    \/ \E o \in ListOutcomes : FetchTemplates(o)
    \/ \E o \in ListOutcomes : FetchFolders(o)
    \/ \E o \in ListOutcomes : FetchRoutines(o)
    \/ ReuseFolder
    \/ \E o \in FolderOutcomes : CreateWeekFolder(o)
    \/ \E o \in RoutineOutcomes : SyncRoutine(o)
    \/ RerunAfterSuccess

Spec == Init /\ [][Next]_vars

\* the same program run with a config read from the memory file
InitLoaded == Start(LoadedLiftOrders)

RerunLoaded ==
    /\ pc = "done"
    /\ \E order \in LoadedLiftOrders : Rerun(order)

NextLoaded ==
    \/ \E o \in ListOutcomes : FetchTemplates(o)
    \/ \E o \in ListOutcomes : FetchFolders(o)
    \/ \E o \in ListOutcomes : FetchRoutines(o)
    \/ ReuseFolder
    \/ \E o \in FolderOutcomes : CreateWeekFolder(o)
    \/ \E o \in RoutineOutcomes : SyncRoutine(o)
    \/ RerunLoaded

SpecLoaded == InitLoaded /\ [][NextLoaded]_vars

\* no two of the remote's routines and no two of its folders share a title
UniqueTitles(seq) ==
    \A j, k \in DOMAIN seq : seq[j].Title = seq[k].Title => j = k

\* the program is run again with the same config, after a sync that completed
\* or after one that returned an error
SyncAgain ==
    /\ pc \in {"done", "failed"}
    /\ Rerun(liftOrder)

\* syncs one after the other, each completing or returning an error, against a
\* remote that starts with all the templates, with no title held twice and
\* with one of the shorter folder and routine lists; a sync is followed by one
\* of the same program, and a completed sync by one of any program
InitResync ==
    /\ Start(LiftOrders)
    /\ remoteTemplates = AllTemplates
    /\ Len(remoteFolders) <= 2
    /\ Len(remoteRoutines) <= 2
    /\ UniqueTitles(remoteFolders)
    /\ UniqueTitles(remoteRoutines)

NextResync ==
    \/ \E o \in ListOutcomes : FetchTemplates(o)
    \/ \E o \in ListOutcomes : FetchFolders(o)
    \/ \E o \in ListOutcomes : FetchRoutines(o)
    \/ ReuseFolder
    \/ \E o \in FolderOutcomes : CreateWeekFolder(o)
    \/ \E o \in RoutineOutcomes : SyncRoutine(o)
    \/ SyncAgain
    \/ RerunAfterSuccess

SpecResync == InitResync /\ [][NextResync]_vars

----------------------------------------------------------------------------
(* Library functions called on their own *)

\* the sync is not running
SyncIdle ==
    /\ remoteTemplates = <<>>
    /\ listPage = 1
    /\ listAll = <<>>
    /\ remoteFolders = <<>>
    /\ remoteRoutines = <<>>
    /\ liftOrder = <<>>
    /\ routines = <<>>
    /\ pc = "idle"
    /\ folderByName = EmptyMap
    /\ routineByTitle = EmptyMap
    /\ weekFolders = EmptyMap
    /\ week = 1
    /\ idx = 1
    /\ attempt = 0
    /\ err = NoErr
    /\ created = 0
    /\ updated = 0
    /\ retErr = NoErr
    /\ lastReq = NoReq
    /\ sleeps = <<>>
    /\ reqCount = 0
    /\ folderReqs = <<>>
    /\ syncNo = 0
    /\ prev = [order |-> <<>>, ok |-> FALSE]
    /\ startTitles = [folders |-> <<>>, routines |-> <<>>]

syncVars == <<remoteTemplates, remoteFolders, remoteRoutines, liftOrder, routines, pc,
              listPage, listAll, folderByName,
              routineByTitle, weekFolders, week, idx, attempt, err, created, updated,
              retErr, lastReq, sleeps, reqCount, folderReqs, syncNo, prev, startTitles>>

\* the responses a create or update call is run against
CallStatuses == {200, 201, 204, 400, 429, 500}
CallResponses(echo) ==
    {Response(o, echo) : o \in [kind : {"transport"}, cause : TransportCauses]
                              \cup [kind : {"ok"}, status : CallStatuses,
                                    decodable : BOOLEAN]}
CallTitles == {"531 BBB W1D1 - Squat", "531 BBB Week 1", ""}
ClientCalls ==
    {[fn |-> f, id |-> "r7", title |-> t, resp |-> r] :
        f \in {"CreateRoutine", "CreateFolder", "UpdateRoutine"},
        t \in CallTitles,
        r \in CallResponses([ID |-> "r7", Title |-> "Echoed"])}

\* the catalogs and names FindTemplate is run against
TemplatePool ==
    <<[ID |-> "T1", Title |-> "Barbell Squat"],
      [ID |-> "T2", Title |-> "Squat (Barbell)"],
      [ID |-> "T3", Title |-> "Front Squat"],
      [ID |-> "T4", Title |-> "Squat"],
      [ID |-> "T5", Title |-> "Pull Up"],
      [ID |-> "T6", Title |-> "Leg Press (Machine)"],
      [ID |-> "T7", Title |-> "BARBELL SQUAT"]>>
RECURSIVE Pick(_, _)
Pick(pool, keep) ==
    IF pool = <<>> THEN <<>>
    ELSE (IF Len(pool) \in keep THEN Pick(SubSeq(pool, 1, Len(pool) - 1), keep)
                                     \o <<pool[Len(pool)]>>
          ELSE Pick(SubSeq(pool, 1, Len(pool) - 1), keep))
Catalogs == {Pick(TemplatePool, keep) : keep \in SUBSET DOMAIN TemplatePool}
ExerciseNames ==
    {"Squat", "SQUAT", "squat (barbell)", "Pull-up", "Leg Press", "Press",
     "Paused Front Squat", "Zercher", ""}
ResolverCalls ==
    {[fn |-> "FindTemplate", templates |-> c, name |-> n] :
        c \in Catalogs, n \in ExerciseNames}

InitCall ==
    /\ SyncIdle
    /\ call \in ClientCalls \cup ResolverCalls
    /\ result = NoResult

\* a create or update call of the client returns
CallClient ==
    /\ call.fn \in {"CreateRoutine", "CreateFolder", "UpdateRoutine"}
    /\ result = NoResult
    /\ LET routine == [Title |-> call.title, FolderID |-> Nil]
       IN result' = Ptr(CASE call.fn = "CreateRoutine" -> CreateRoutine(routine, call.resp)
                          [] call.fn = "CreateFolder" -> CreateFolder(call.title, call.resp)
                          [] call.fn = "UpdateRoutine" ->
                                UpdateRoutine(call.id, routine, call.resp))
    /\ UNCHANGED <<call, syncVars>>

\* mapper.FindTemplate returns
CallFindTemplate ==
    /\ call.fn = "FindTemplate"
    /\ result = NoResult
    /\ \E r \in FindTemplate(NewExerciseMapper(call.templates), call.name) :
          result' = Ptr(r)
    /\ UNCHANGED <<call, syncVars>>

NextCall == CallClient \/ CallFindTemplate

SpecCall == InitCall /\ [][NextCall]_vars

----------------------------------------------------------------------------
(* The converter and the generator called on their own *)

\* the prescribed sets convertSets is run on
SetCounts == (-1)..MaxSetCount
Percentages == {-5, 0, 1, 40, 60, 61, 65, 100}
Weights == {-45, 0, 135}
RepsNotations ==
    {"5", "3", "10", "12", "5+", "3+", "1+", "8+", "4+", "0", "0+", "", "+", "5++",
     "abc", "x+", "5x", "+5", "-5", "-5+", "007+",
     "1073741823+", "1073741824+", "2147483647", "2147483647+", "2147483648",
     "4294967295x", "4294967296x", "99999999999+"}
SetCalls ==
    {[fn |-> "convertSets",
      set |-> [Exercise |-> Squat, Sets |-> n, Reps |-> r, Weight |-> w, Percentage |-> p]] :
        n \in SetCounts, r \in RepsNotations, w \in Weights, p \in Percentages}

\* the days ConvertDayToRoutine is run on: up to MaxDaySets prescribed sets,
\* each of one of these shapes under one of these names
SetShapes ==
    {[Sets |-> 2, Reps |-> "5+", Weight |-> 255, Percentage |-> 85],
     [Sets |-> 1, Reps |-> "10", Weight |-> 0, Percentage |-> 0],
     [Sets |-> 0, Reps |-> "5", Weight |-> 120, Percentage |-> 40]}
DayExerciseNames == {Squat, "Leg Press", "Zercher", ""}
DaySets ==
    {[Exercise |-> n, Sets |-> sh.Sets, Reps |-> sh.Reps, Weight |-> sh.Weight,
      Percentage |-> sh.Percentage] : n \in DayExerciseNames, sh \in SetShapes}
DaySetSeqs == UNION {[1..n -> DaySets] : n \in 0..MaxDaySets}
DayCatalogs ==
    {<<>>,
     <<[ID |-> "T1", Title |-> "Squat (Barbell)"],
       [ID |-> "T6", Title |-> "Leg Press (Machine)"]>>,
     <<[ID |-> "T3", Title |-> "Front Squat"],
       [ID |-> "T9", Title |-> "Box Squat"],
       [ID |-> "T6", Title |-> "Leg Press (Machine)"]>>}
DayCalls ==
    {[fn |-> "ConvertDayToRoutine",
      day |-> [Week |-> 2, DayNum |-> 3, MainLift |-> Squat, Sets |-> sets],
      templates |-> c] : sets \in DaySetSeqs, c \in DayCatalogs}

\* the configs Generate is run on. GatherConfig gives the four lifts in some
\* order, any lift as the BBB lift of each, a preset accessory for each, and a
\* BBB percentage
GatheredOrders == LiftOrders \cup {<<OHP, Deadlift, Bench, Squat>>}
GatheredPairings ==
    {[lift \in Range(AllLifts) |-> lift],
     [lift \in Range(AllLifts) |->
        CASE lift = Squat -> Deadlift [] lift = Deadlift -> Squat
          [] lift = Bench -> OHP [] lift = OHP -> Bench],
     [lift \in Range(AllLifts) |-> Bench]}
GatheredConfigs ==
    {[TrainingMaxes |-> TrainingMaxes,
      LiftOrder     |-> order,
      BBBPercentage |-> pct,
      BBBPairing    |-> pairing,
      Accessories   |-> [lift \in Range(AllLifts) |-> AccessoryPresets[lift][choice]]] :
        order \in GatheredOrders, pct \in {50, 60}, pairing \in GatheredPairings,
        choice \in {1, 4}}

\* a config read from the memory file is taken as it is: any lifts in any
\* number, any pairing and any accessory names
LoadedConfigs ==
    {[ConfigOf(order) EXCEPT !.BBBPairing = pairing, !.Accessories = accessories] :
        order \in LoadedLiftOrders \cup {<<>>, <<Squat>>, DefaultLiftOrder},
        pairing \in {[lift \in Range(AllLifts) |-> lift],
                     [lift \in Range(AllLifts) |-> Bench],
                     EmptyMap},
        accessories \in {EmptyMap,
                         [lift \in Range(AllLifts) |-> AccessoryPresets[lift][1]],
                         [lift \in Range(AllLifts) |-> lift],
                         [lift \in Range(AllLifts) |-> ""]}}
GenerateCalls == {[fn |-> "Generate", cfg |-> c] : c \in GatheredConfigs \cup LoadedConfigs}

InitConvert ==
    /\ SyncIdle
    /\ call \in SetCalls \cup DayCalls \cup GenerateCalls
    /\ result = NoResult

\* convertSets returns
CallConvertSets ==
    /\ call.fn = "convertSets"
    /\ result = NoResult
    /\ result' = Ptr(convertSets(call.set))
    /\ UNCHANGED <<call, syncVars>>

\* ConvertDayToRoutine returns, or panics
CallConvertDay ==
    /\ call.fn = "ConvertDayToRoutine"
    /\ result = NoResult
    /\ \E r \in ConvertDayToRoutine(call.day, NewExerciseMapper(call.templates)) :
          result' = Ptr(r)
    /\ UNCHANGED <<call, syncVars>>

\* program.Generate returns
CallGenerate ==
    /\ call.fn = "Generate"
    /\ result = NoResult
    /\ result' = Ptr(Generate(call.cfg))
    /\ UNCHANGED <<call, syncVars>>

NextConvert == CallConvertSets \/ CallConvertDay \/ CallGenerate

SpecConvert == InitConvert /\ [][NextConvert]_vars

----------------------------------------------------------------------------
(* The list operations called on their own *)

ListFns == {"GetExerciseTemplates", "GetFolders", "GetRoutines"}

\* the remote reports the same page count, from -1 to MaxPageCount, on every
\* page, and gives these items on the k-th page
PageCounts == (-1)..MaxPageCount
PageItems(fn, k) ==
    [j \in 1..((2 * k) % 3) |->
        CASE fn = "GetExerciseTemplates" ->
                [ID |-> "T" \o ToString((10 * k) + j), Title |-> "Template"]
          [] fn = "GetFolders" -> [ID |-> (10 * k) + j, Title |-> "Folder"]
          [] fn = "GetRoutines" ->
                [ID |-> "r" \o ToString((10 * k) + j), Title |-> "Routine",
                 FolderID |-> Nil]]

ListURL(fn, k) ==
    CASE fn = "GetExerciseTemplates" -> TemplatesPageURL(k)
      [] fn = "GetFolders" -> FoldersPageURL(k)
      [] fn = "GetRoutines" -> RoutinesPageURL(k)

ListCalls == {[fn |-> f, pageCount |-> n, answer |-> ""] : f \in ListFns, n \in PageCounts}

InitList ==
    /\ SyncIdle
    /\ call \in ListCalls
    /\ result = NoResult

\* one turn of the loop of the list operation: the request for the page is
\* answered; the operation goes on with the next page or returns
CallListPage(o) ==
    /\ call.fn \in ListFns
    /\ result = NoResult
    /\ LET resp == Response(o, [page_count |-> call.pageCount,
                                items |-> PageItems(call.fn, listPage)])
           res == CASE call.fn = "GetExerciseTemplates" ->
                          GetExerciseTemplates(listPage, listAll, resp)
                    [] call.fn = "GetFolders" -> GetFolders(listPage, listAll, resp)
                    [] call.fn = "GetRoutines" -> GetRoutines(listPage, listAll, resp)
       IN /\ lastReq' = ListWire(ListURL(call.fn, listPage))
          /\ call' = [call EXCEPT !.answer = IF o.kind = "ok" /\ o.decodable
                                              THEN "page" ELSE "failure"]
          /\ IF res.more
             THEN /\ listPage' = listPage + 1
                  /\ listAll' = res.val
                  /\ result' = result
             ELSE /\ result' = Ptr(Result(res.val, res.err))
                  /\ UNCHANGED <<listPage, listAll>>
    /\ UNCHANGED <<remoteTemplates, remoteFolders, remoteRoutines, liftOrder, routines, pc,
                   folderByName, routineByTitle, weekFolders, week, idx, attempt, err,
                   created, updated, retErr, sleeps, reqCount, folderReqs, syncNo, prev,
                   startTitles>>

NextList == \E o \in ListOutcomes : CallListPage(o)

SpecList == InitList /\ [][NextList]_vars

----------------------------------------------------------------------------
(* Properties of the sync *)

\* the last request was a routine create or update of this sync
RoutineRequestSent == reqCount > 0

\* the routine titles listed from the remote at the start of the sync
ListedTitles == Range(startTitles.routines)

\* an error whose text contains neither "429" nor "rate limit"
NotRateLimitShaped(e) ==
    ~IsNil(e) /\ ~Contains(Deref(e), "429") /\ ~Contains(Deref(e), "rate limit")

\* a failed sync sends nothing more: the only step left is a new run
NothingAfterFailure == [][pc = "failed" => syncNo' = syncNo + 1]_vars

\* C1: in every sync and on every attempt, retries included, a routine request
\* sent on the update path (PUT) carries no folder reference and a routine request
\* sent on the create path (POST /routines) carries one.
C1_FolderOnlyOnCreate ==
    /\ lastReq.method = "PUT" => IsNil(lastReq.folder)
    /\ (lastReq.method = "POST" /\ lastReq.url = "https://api.hevyapp.com/v1/routines")
          => ~IsNil(lastReq.folder)

\* C1 witness: an update is being retried in a sync that has also created routines
C1_Witness == lastReq.method = "PUT" /\ reqCount >= 2 /\ created > 0

\* C2: a payload is sent as an update exactly when its title was listed at the
\* start of the sync and as a create otherwise; when the sync completes, updated
\* is the number of payloads with a listed title, created the number of the
\* others, and they add up to the number of payloads.
C2_UpdateIffTitleListed ==
    /\ RoutineRequestSent =>
          /\ lastReq.method = "PUT" <=> lastReq.title \in ListedTitles
          /\ lastReq.method = "POST" <=> lastReq.title \notin ListedTitles
    /\ pc = "done" =>
          /\ updated = Cardinality({k \in DOMAIN routines : routines[k].Title \in ListedTitles})
          /\ created = Cardinality({k \in DOMAIN routines : routines[k].Title \notin ListedTitles})
          /\ created + updated = Len(routines)

\* C2 witness: 4 listed titles and 12 new ones
C2_Witness == pc = "done" /\ updated = 4 /\ created = 12

\* C3: a second sync of the same program after a sync that completed creates no
\* folder and no routine, leaves the remote folder and routine titles as they
\* were, and when it completes reports created = 0 and updated = the number of
\* payloads.
C3_SecondSyncOnlyUpdates ==
    (syncNo > 1 /\ prev.ok /\ prev.order = liftOrder) =>
        /\ lastReq.method # "POST"
        /\ folderReqs = <<>>
        /\ TitlesOf(remoteFolders) = startTitles.folders
        /\ TitlesOf(remoteRoutines) = startTitles.routines
        /\ pc = "done" => created = 0 /\ updated = Len(routines)

\* C3 witness: the second sync of the same program has completed, after a first
\* sync that created folders and routines
C3_Witness ==
    /\ syncNo = 2 /\ prev.ok /\ prev.order = liftOrder /\ pc = "done"
    /\ Len(remoteRoutines) = 16 /\ remoteRoutines[16].ID = "r443"

\* C4: no sleep precedes the first attempt for a routine and the sleeps before
\* attempts 2, 3, 4, 5 are 20 s, 40 s, 80 s, 160 s in that order; a routine
\* whose fourth attempt succeeds has slept 20 s, 40 s, 80 s and is counted as
\* synced with no error.
C4_BackoffSleeps ==
    /\ reqCount = 0 => sleeps = <<>>
    /\ reqCount >= 1 => sleeps = SubSeq(<<20000, 40000, 80000, 160000>>, 1, reqCount - 1)
    /\ (reqCount = 4 /\ IsNil(err) /\ pc \in {"routines", "done"}) =>
          /\ sleeps = <<20000, 40000, 80000>>
          /\ IsNil(retErr)
          /\ created + updated = idx - 1
          /\ lastReq.title = routines[idx - 1].Title

\* C4 witness: the fourth attempt for a routine succeeded, and the sync goes on
C4_Witness ==
    reqCount = 4 /\ IsNil(err) /\ pc = "routines" /\ sleeps = <<20000, 40000, 80000>>

\* C5: at most 5 create/update requests are sent for a routine; when the fifth
\* fails, the sync returns the error of that attempt, and no request for a later
\* routine follows.
C5_AtMostFiveAttempts ==
    /\ [](/\ reqCount <= 5
          /\ (pc = "failed" /\ reqCount = 5) =>
                /\ ~IsNil(err)
                /\ retErr = <<"failed to sync routine " \o lastReq.title \o ": " \o err[1]>>
                /\ lastReq.title = routines[idx].Title)
    /\ NothingAfterFailure

\* C5 witness: the fifth attempt failed with a rate-limit-shaped error
C5_Witness ==
    /\ pc = "failed" /\ reqCount = 5 /\ idx = 3
    /\ err = <<"API error (status 429): Too Many Requests">>

\* C6: an attempt that fails with an error containing neither "429" nor "rate
\* limit" ends the sync: the routine is not attempted again, the sync returns
\* that error, no request for a later routine follows, and the routines synced
\* before stay counted and stay on the remote.
C6_FatalErrorAborts ==
    /\ [](/\ pc = "routines" => ~NotRateLimitShaped(err)
          /\ (pc = "failed" /\ RoutineRequestSent /\ NotRateLimitShaped(err)) =>
                /\ retErr = <<"failed to sync routine " \o lastReq.title \o ": " \o err[1]>>
                /\ lastReq.title = routines[idx].Title
                /\ created + updated = idx - 1
                /\ \A k \in 1..(idx - 1) : routines[k].Title \in Range(TitlesOf(remoteRoutines)))
    /\ NothingAfterFailure

\* C6 witness: the first attempt for the third routine failed with status 500,
\* after two routines were created
C6_Witness ==
    /\ pc = "failed" /\ reqCount = 1 /\ idx = 3 /\ created = 2
    /\ err = <<"API error (status 500): Internal Server Error">>

\* the error of a request that failed at the connection
TransportFailure(e) ==
    /\ ~IsNil(e)
    /\ \/ HasPrefix(Deref(e), "failed to update routine: ")
       \/ HasPrefix(Deref(e), "failed to create routine: ")

\* C7: a transport failure of a routine create or update is never retried: the
\* retry loop never goes on after one, whatever its text.
C7_TransportNeverRetried == ~(pc = "routines" /\ RoutineRequestSent /\ TransportFailure(err))

\* C8: for every week the folder loop has dealt with, a create-folder request
\* for "531 BBB Week w" was sent exactly when no folder with exactly that title
\* was listed at the start of the sync, and otherwise the ID of a listed folder
\* of that title is used; no week's folder is requested twice and no other title
\* is ever requested.
C8_FolderCreatedIffNotListed ==
    LET name == [w \in 1..4 |-> "531 BBB Week " \o ToString(w)]
        listed(w) == name[w] \in Range(startTitles.folders)
        sent(w) == name[w] \in Range(folderReqs)
    IN /\ \A w \in 1..4 :
            /\ sent(w) => ~listed(w)
            /\ week > w => (sent(w) <=> ~listed(w))
            /\ (week > w /\ listed(w)) =>
                  \E k \in DOMAIN startTitles.folders :
                      /\ startTitles.folders[k] = name[w]
                      /\ remoteFolders[k].ID = weekFolders[w]
       /\ \A j \in DOMAIN folderReqs : \E w \in 1..4 : folderReqs[j] = name[w]
       /\ \A j, k \in DOMAIN folderReqs : folderReqs[j] = folderReqs[k] => j = k

\* C8 witness: "531 bbb week 1" is listed and "531 BBB Week 2" twice; weeks 1, 3
\* and 4 are created and week 2 reuses a listed ID
C8_Witness ==
    /\ week > 4
    /\ folderReqs = <<"531 BBB Week 1", "531 BBB Week 3", "531 BBB Week 4">>
    /\ weekFolders[2] = 104

----------------------------------------------------------------------------
(* Properties of the client and the resolver *)

\* a create or update call has returned after a response whose status is a
\* success code of the operation (200, and 201 for a creation) and whose body
\* does not decode
UndecodableSuccess(fns) ==
    /\ call.fn \in fns
    /\ result # NoResult
    /\ IsNil(call.resp.transport)
    /\ IsNil(call.resp.decoded)
    /\ \/ call.resp.status = 200
       \/ call.resp.status = 201 /\ call.fn \in {"CreateRoutine", "CreateFolder"}

\* the call succeeded with a resource that has only its title
TitleOnly == result = <<[val |-> <<[ID |-> "", Title |-> call.title]>>, err |-> <<>>]>>

\* C9, as claimed: every create or update operation (create folder, create
\* routine, update routine) succeeds with a title-only resource when the status
\* is a success and the body does not decode.
C9_AllOpsTolerateDecodeFailure ==
    UndecodableSuccess({"CreateRoutine", "CreateFolder", "UpdateRoutine"}) => TitleOnly

\* C9, amended: create routine and update routine succeed with a title-only
\* resource when the status is a success and the body does not decode; create
\* folder returns an error and no folder.
C9_RoutineOpsTolerateDecodeFailure ==
    /\ UndecodableSuccess({"CreateRoutine", "UpdateRoutine"}) => TitleOnly
    /\ UndecodableSuccess({"CreateFolder"}) =>
          IsNil(result[1].val) /\ ~IsNil(result[1].err)

\* C9 witness: update routine has returned after a 200 with an undecodable body
C9_Witness ==
    /\ UndecodableSuccess({"UpdateRoutine"})
    /\ call.title = "531 BBB W1D1 - Squat"
    /\ IsNil(result[1].err)

\* C10: FindTemplate(name) returns the catalog entry of the case-insensitive
\* exact match when there is one; otherwise, when name lowercased is an alias
\* key, the entry of the first alias in list order that is in the catalog;
\* otherwise an entry whose lowercased title contains the lowercased name or is
\* contained in it; and it fails exactly when none of the three matches.
C10_ExactThenAliasThenPartial ==
    (call.fn = "FindTemplate" /\ result # NoResult) =>
        LET cat == call.templates
            lower == ToLower(call.name)
            lowTitles == {ToLower(cat[k].Title) : k \in DOMAIN cat}
            entry(t) == cat[Max({k \in DOMAIN cat : ToLower(cat[k].Title) = t})]
            exact == lower \in lowTitles
            aliases == IF lower \in DOMAIN exerciseAliases
                       THEN exerciseAliases[lower] ELSE <<>>
            present == {k \in DOMAIN aliases : aliases[k] \in lowTitles}
            partial == {t \in lowTitles : Contains(t, lower) \/ Contains(lower, t)}
            r == result[1]
        IN /\ exact => r.val = <<entry(lower)>>
           /\ (~exact /\ present # {}) =>
                 r.val = <<entry(aliases[Min(present)])>>
           /\ (~exact /\ present = {} /\ partial # {}) =>
                 /\ ~IsNil(r.val)
                 /\ \E t \in partial : r.val = <<entry(t)>>
           /\ IsNil(r.val) <=> (~exact /\ present = {} /\ partial = {})
           /\ IsNil(r.val) <=> ~IsNil(r.err)

\* C10 witness: "Squat" resolves through the alias table to "Barbell Squat",
\* the first alias, in a catalog that also holds the second alias and a title
\* that contains the name
C10_Witness ==
    /\ call.fn = "FindTemplate"
    /\ call.name = "Squat"
    /\ call.templates = <<[ID |-> "T1", Title |-> "Barbell Squat"],
                          [ID |-> "T2", Title |-> "Squat (Barbell)"],
                          [ID |-> "T3", Title |-> "Front Squat"]>>
    /\ result = <<[val |-> <<[ID |-> "T1", Title |-> "Barbell Squat"]>>, err |-> <<>>]>>

----------------------------------------------------------------------------
(* Properties of the conversion within the sync *)

\* the exercise names of a program
ExerciseNamesOf(prog) ==
    UNION {{prog[k].Sets[i].Exercise : i \in DOMAIN prog[k].Sets} : k \in DOMAIN prog}

\* the mapper finds no template for the name
Unresolved(m, name) == \E t \in FindTemplate(m, name) : ~IsNil(t.err)

\* a call returned an error and nothing else
ErrorOnly(r) == ~Panicked(r) /\ ~IsNil(r.err) /\ r.val = <<>>

\* uploadToHevy returned because the program did not convert
ConversionFailed ==
    /\ pc = "failed"
    /\ ~IsNil(retErr)
    /\ HasPrefix(Deref(retErr), "failed to convert program: failed to find template for ")

\* no request that changes the remote was sent in this sync
NothingMutated ==
    /\ reqCount = 0
    /\ folderReqs = <<>>
    /\ lastReq.method \in {"", "GET"}
    /\ TitlesOf(remoteFolders) = startTitles.folders
    /\ TitlesOf(remoteRoutines) = startTitles.routines

\* the step found the templates but did not convert the program
ConversionStepFailed ==
    /\ pc = "get_templates"
    /\ pc' = "failed"
    /\ HasPrefix(Deref(retErr'), "failed to convert program: ")

----------------------------------------------------------------------------
(* Properties of the order of the remote calls *)

\* the stage of the upload a request belongs to: template listing, folder
\* listing, routine listing, folder creation, routine create or update
StageOf(req) ==
    CASE req.method = "" -> 0
      [] req.method = "GET" /\ HasPrefix(req.url, baseURL \o "/exercise_templates?") -> 1
      [] req.method = "GET" /\ HasPrefix(req.url, baseURL \o "/routine_folders?") -> 2
      [] req.method = "GET" /\ HasPrefix(req.url, baseURL \o "/routines?") -> 3
      [] req.method = "POST" /\ req.url = FoldersURL -> 4
      [] OTHER -> 5

\* the step puts a request on the wire
RequestSent ==
    \/ lastReq' # lastReq
    \/ reqCount' # reqCount
    \/ folderReqs' # folderReqs

\* the week of a weekly folder's title
WeekOfFolder(title) == CHOOSE w \in 1..NumWeeks : FolderName(w) = title

\* the URL of a page of the list of a listing stage, and the last page of that
\* list on the remote
StagePageURL(stage, page) ==
    CASE stage = 1 -> TemplatesPageURL(page)
      [] stage = 2 -> FoldersPageURL(page)
      [] stage = 3 -> RoutinesPageURL(page)
LastPageOf(stage) ==
    CASE stage = 1 -> Max({1, PageCount(remoteTemplates, TemplatesPageSize)})
      [] stage = 2 -> Max({1, PageCount(remoteFolders, FoldersPageSize)})
      [] stage = 3 -> Max({1, PageCount(remoteRoutines, RoutinesPageSize)})

\* the last request was the GET of the given page of its list
AtPage(req, page) == req = ListWire(StagePageURL(StageOf(req), page))

\* the whole program was converted: one payload per generated day
ProgramConverted ==
    /\ Len(routines) = Len(Generate(ConfigOf(liftOrder)))
    /\ Len(routines) > 0

\* C16: within one sync the requests go out stage by stage and never back: the
\* template pages 1, 2, ... to the last; then, the whole program being
\* converted, the folder pages and then the routine pages in the same way; then
\* the creations of the missing weekly folders by increasing week; then, all
\* four weeks having their folder, the create or update requests of the
\* payloads in input order, to the last payload. Nothing is listed after a
\* creation, and a sync whose conversion failed sent nothing that mutates.
C16_RemoteCallOrder ==
    /\ [](/\ StageOf(lastReq) >= 2 => ProgramConverted
          /\ \A i, j \in DOMAIN folderReqs :
                /\ \E w \in 1..NumWeeks : folderReqs[i] = FolderName(w)
                /\ i < j => WeekOfFolder(folderReqs[i]) < WeekOfFolder(folderReqs[j])
          /\ StageOf(lastReq) = 5 =>
                /\ week > NumWeeks
                /\ DOMAIN weekFolders = 1..NumWeeks
                /\ idx \in DOMAIN routines \/ (pc = "done" /\ idx = Len(routines) + 1)
          /\ pc = "done" => idx = Len(routines) + 1
          /\ (ConversionFailed \/ pc = "crashed") => NothingMutated)
    /\ [][syncNo' = syncNo =>
            /\ week' # week => reqCount = 0 /\ week' = week + 1
            /\ idx' # idx => idx' = idx + 1
            /\ RequestSent =>
                LET s == StageOf(lastReq)
                    t == StageOf(lastReq')
                IN /\ t >= s
                   /\ t \in 1..3 =>
                        \* the next page of the same list, or the first page of
                        \* the next list after the last page of the one before
                        \/ /\ t = s
                           /\ \E p \in 1..(LastPageOf(s) - 1) :
                                 AtPage(lastReq, p) /\ AtPage(lastReq', p + 1)
                        \/ /\ t = s + 1
                           /\ s > 0 => AtPage(lastReq, LastPageOf(s))
                           /\ AtPage(lastReq', 1)
                   /\ t = 4 =>
                        /\ s \in {3, 4}
                        /\ s = 3 => AtPage(lastReq, LastPageOf(3))
                        /\ lastReq' = CreateFolderWire(FolderName(week))
                        /\ folderReqs' = Append(folderReqs, FolderName(week))
                   /\ t = 5 =>
                        /\ s \in {3, 4, 5}
                        /\ s = 3 => AtPage(lastReq, LastPageOf(3))
                        /\ lastReq'.title = routines[idx].Title
                        /\ \/ lastReq'.method = "POST" /\ lastReq'.url = RoutinesURL
                           \/ lastReq'.method = "PUT"]_vars

\* a sync has completed against a remote whose folders and whose routines each
\* filled two pages: it created the folders of weeks 3 and 4 and updated all
\* sixteen routines
C16_Witness ==
    /\ pc = "done"
    /\ Len(startTitles.folders) > FoldersPageSize
    /\ Len(startTitles.routines) > RoutinesPageSize
    /\ folderReqs = <<FolderName(3), FolderName(4)>>
    /\ updated = Len(routines)
    /\ StageOf(lastReq) = 5

----------------------------------------------------------------------------
(* Properties of the sync's error handling *)

\* the error of a non-2xx response
APIReply(e) == ~IsNil(e) /\ HasPrefix(Deref(e), "API error (status ")

\* the last request belongs to the sync proper: a folder or routine listing, a
\* folder creation, a routine create or update
SyncRequest == StageOf(lastReq) >= 2

\* C18: a non-2xx error of a folder listing, a routine listing, a folder
\* creation or a routine create/update that is recognized as rate limiting
\* ("429" or "rate limit" in its text) does not abort the sync while attempts
\* are left: the sync fails on it only after the fifth attempt; every other
\* non-2xx error of these requests ends the sync.
C18_RateLimitRetriedEverywhere ==
    /\ (pc = "failed" /\ SyncRequest /\ APIReply(err) /\ isRateLimitError(err))
          => reqCount = MaxAttempts
    /\ (SyncRequest /\ APIReply(err) /\ ~isRateLimitError(err)) =>
          /\ pc = "failed"
          /\ ~IsNil(retErr)
          /\ HasSuffix(Deref(retErr), Deref(err))

----------------------------------------------------------------------------
(* Properties of the routines' folders *)

\* the week in a routine title "531 BBB W{w}D{d} - ..."
TitlePrefix == "531 BBB W"
TitleWeek(title) == DigitVal(SubSeq(title, Len(TitlePrefix) + 1, Len(TitlePrefix) + 1))

\* the IDs of the remote's folders with the given title
FolderIDsOf(title) ==
    {remoteFolders[k].ID : k \in {j \in DOMAIN remoteFolders : remoteFolders[j].Title = title}}

----------------------------------------------------------------------------
(* Properties of the remote over several syncs *)

\* the titles of the weekly folders
WeekFolderTitles == {FolderName(w) : w \in 1..NumWeeks}

\* C22: from a remote with no two folders and no two routines of the same
\* title, whatever syncs of generated programs follow, each completing or
\* returning at an error of any request, the remote holds at most one routine
\* of any title and at most one folder of each weekly folder title.
C22_OneRoutinePerTitle ==
    /\ \A j, k \in DOMAIN remoteRoutines :
          remoteRoutines[j].Title = remoteRoutines[k].Title => j = k
    /\ \A t \in WeekFolderTitles :
          Cardinality({k \in DOMAIN remoteFolders : remoteFolders[k].Title = t}) <= 1

\* C22 witness: a sync that returned an error after creating two routines was
\* followed by a sync of the same program, which updated those two, created
\* the other fourteen and completed
C22_Witness ==
    /\ syncNo = 2 /\ ~prev.ok /\ prev.order = liftOrder
    /\ pc = "done" /\ updated = 2 /\ created = 14
    /\ Len(remoteRoutines) = 16

----------------------------------------------------------------------------
(* Properties of the converter and the generator *)

\* convertSets has returned the remote sets of the prescribed set call.set
ConvertedSets == call.fn = "convertSets" /\ result # NoResult

\* C12: every remote set a prescribed set converts to has kind warmup if
\* 0 < percentage <= 60 and kind normal if percentage = 0 or percentage > 60;
\* no other kind is emitted.
C12_SetKindByPercentage ==
    ConvertedSets =>
        LET p == call.set.Percentage
            out == Deref(result)
        IN \A i \in DOMAIN out :
              /\ out[i].Type \in {"warmup", "normal"}
              /\ (0 < p /\ p <= 60) => out[i].Type = "warmup"
              /\ (p = 0 \/ p > 60) => out[i].Type = "normal"

\* three sets at exactly 60% came out as warmups
C12_Witness ==
    /\ ConvertedSets
    /\ call.set.Percentage = 60
    /\ Len(Deref(result)) = 3
    /\ \A i \in 1..3 : Deref(result)[i].Type = "warmup"

Generated == call.fn = "Generate" /\ result # NoResult

\* C14: the program Generate returns has exactly 16 training days, one for each
\* week 1..4 and day 1..4, in week-major order.
C14_SixteenDaysWeekMajor ==
    Generated =>
        LET prog == Deref(result)
        IN /\ Len(prog) = 16
           /\ \A w \in 1..4 : \A d \in 1..4 :
                 /\ prog[((w - 1) * 4) + d].Week = w
                 /\ prog[((w - 1) * 4) + d].DayNum = d

\* the sets of the day that share an exercise name are next to each other
Contiguous(day) ==
    \A i \in DOMAIN day.Sets : \A j \in DOMAIN day.Sets :
        (i < j /\ day.Sets[i].Exercise = day.Sets[j].Exercise) =>
            \A k \in i..j : day.Sets[k].Exercise = day.Sets[i].Exercise

\* C15: in every day Generate returns, the sets that share an exercise name are
\* contiguous, and converting the day gives at most one exercise block for each
\* distinct exercise name.
C15_SameNameSetsContiguous ==
    Generated =>
        \A day \in Range(Deref(result)) :
            /\ Contiguous(day)
            /\ \A r \in ConvertDayToRoutine(day, NewExerciseMapper(AllTemplates)) :
                  (~Panicked(r) /\ IsNil(r.err)) =>
                      Len(Deref(r.val).Exercises)
                          <= Cardinality({day.Sets[i].Exercise : i \in DOMAIN day.Sets})

\* ConvertDayToRoutine has returned, or panicked, for the day call.day
ConvertedDay == call.fn = "ConvertDayToRoutine" /\ result # NoResult

\* the positions where a maximal run of sets with the same exercise name starts
RunStarts(sets) ==
    {i \in DOMAIN sets : i = 1 \/ sets[i].Exercise # sets[i - 1].Exercise}

\* the start of the b-th run and the end of the run that starts at i
NthRunStart(sets, b) ==
    CHOOSE i \in RunStarts(sets) : Cardinality({j \in RunStarts(sets) : j <= i}) = b
RunEnd(sets, i) ==
    Min({j - 1 : j \in {k \in RunStarts(sets) : k > i}} \cup {Len(sets)})

\* the converted sets of the prescribed sets from..to, one after the other
RECURSIVE ConvertedRun(_, _, _)
ConvertedRun(sets, from, to) ==
    IF from > to THEN <<>>
    ELSE convertSets(sets[from]) \o ConvertedRun(sets, from + 1, to)

RECURSIVE SumOf(_)
SumOf(seq) == IF seq = <<>> THEN 0 ELSE seq[1] + SumOf(Tail(seq))

\* C19: for a day whose exercise names all resolve, ConvertDayToRoutine yields
\* one exercise block for each maximal run of consecutive sets with the same
\* name, in the order of the runs; each block has a template ID resolved for
\* the run's name and, as its sets, the converted sets of the run's prescribed
\* sets in order; the payload's remote sets number the sum of the set counts.
C19_OneBlockPerRun ==
    LET sets == call.day.Sets
        m == NewExerciseMapper(call.templates)
        r == Deref(result)
    IN (ConvertedDay /\ \A i \in DOMAIN sets : ~Unresolved(m, sets[i].Exercise)) =>
          /\ ~Panicked(r)
          /\ IsNil(r.err)
          /\ LET blocks == Deref(r.val).Exercises
             IN /\ Len(blocks) = Cardinality(RunStarts(sets))
                /\ \A b \in DOMAIN blocks :
                      LET from == NthRunStart(sets, b)
                      IN /\ \E t \in FindTemplate(m, sets[from].Exercise) :
                               blocks[b].ExerciseTemplateID = Deref(t.val).ID
                         /\ blocks[b].Sets = ConvertedRun(sets, from, RunEnd(sets, from))
                /\ SumOf([b \in DOMAIN blocks |-> Len(blocks[b].Sets)])
                       = SumOf([i \in DOMAIN sets |-> sets[i].Sets])

\* the error ConvertDayToRoutine returns for a name that does not resolve
ResolutionError(name) ==
    Ptr("failed to find template for " \o name
        \o ": no template found for exercise: " \o name)

\* C21: for every day and every catalog ConvertDayToRoutine returns either a
\* routine payload and no error, or no payload and the resolution error of one
\* of the day's exercise names; it never panics, whatever the names (the empty
\* string as the name of the first set included), and it returns no payload
\* for a day with an empty exercise name: the empty name resolves to no
\* template.
C21_PayloadOrResolutionError ==
    ConvertedDay =>
        LET sets == call.day.Sets
            r == Deref(result)
        IN /\ ~Panicked(r)
           /\ \/ ~IsNil(r.val) /\ IsNil(r.err)
              \/ /\ IsNil(r.val)
                 /\ \E i \in DOMAIN sets : r.err = ResolutionError(sets[i].Exercise)
           /\ (\E i \in DOMAIN sets : sets[i].Exercise = "") => IsNil(r.val)

----------------------------------------------------------------------------
(* Properties of the list operations *)

\* a list operation is running or has returned
ListCalled == call.fn \in ListFns

\* the items of the pages 1..n, in page order
RECURSIVE PagesUpTo(_, _)
PagesUpTo(fn, n) ==
    IF n <= 0 THEN <<>> ELSE PagesUpTo(fn, n - 1) \o PageItems(fn, n)

\* C17: a list operation against a remote that reports the same page count P
\* on every page requests the pages 1, 2, .., max(1, P), each once and in
\* increasing order, then returns the items of these pages in page order; it
\* requests no page past P (but the first); a page that fails, by its status,
\* in transport or in decoding, makes it return an error and no list.
C17_PagesOnceInOrder ==
    /\ [](ListCalled =>
            LET last == Max({1, call.pageCount})
            IN /\ listPage \in 1..last
               /\ result = NoResult =>
                     /\ call.answer # "failure"
                     /\ listAll = PagesUpTo(call.fn, listPage - 1)
               /\ (result # NoResult /\ call.answer = "failure") =>
                     ~IsNil(Deref(result).err) /\ Deref(result).val = <<>>
               /\ (result # NoResult /\ call.answer = "page") =>
                     /\ IsNil(Deref(result).err)
                     /\ listPage = last
                     /\ Deref(result).val = PagesUpTo(call.fn, last))
    /\ [][ListCalled =>
            /\ result = NoResult
            /\ lastReq' = ListWire(ListURL(call.fn, listPage))
            /\ \/ result' = NoResult /\ listPage' = listPage + 1
               \/ result' # NoResult /\ listPage' = listPage]_vars

\* three pages were asked for and the operation returned what they held
C17_Witness ==
    /\ ListCalled
    /\ call.pageCount = 3
    /\ result # NoResult
    /\ IsNil(Deref(result).err)
    /\ lastReq.url = ListURL(call.fn, 3)
    /\ Len(Deref(result).val) = 3

====
